---- MODULE Spec2Model ----
(***************************************************************************)
(* Model of one client session of redis-rwproxy (src/src/proxy.rs): the    *)
(* request parser (command.rs), the router (routing.rs), the three         *)
(* forwarding strategies, HELLO / AUTH handling and the replica-disable    *)
(* failure model.                                                          *)
(*                                                                         *)
(* Byte strings (bytes::Bytes) are sequences of tokens: an ASCII byte is   *)
(* the one-character string of that byte, "xFF" is a byte that is not      *)
(* valid UTF-8, and "ufffd" is the three-byte encoding of U+FFFD, the      *)
(* replacement character.  A Rust String whose bytes are used again        *)
(* (credentials, SETNAME) is the sequence of its characters; a String      *)
(* that is only compared with literals (a command name) is a TLA+ string.  *)
(***************************************************************************)
EXTENDS Naturals, Integers, Sequences, FiniteSets, TLC

\* Most push frames a backend emits ahead of one reply.
MaxPush == 2

\* The count of replies a backend owes is kept up to this many.
MaxOwed == 2

\* Option<T>: None is the empty sequence, Some(x) the one-element sequence.
None == <<>>
Some(x) == <<x>>
IsSome(o) == o # <<>>
Unwrap(o) == o[1]

-----------------------------------------------------------------------------
(* Bytes and strings *)

LowerCase == <<"a","b","c","d","e","f","g","h","i","j","k","l","m",
               "n","o","p","q","r","s","t","u","v","w","x","y","z">>
UpperCase == <<"A","B","C","D","E","F","G","H","I","J","K","L","M",
               "N","O","P","Q","R","S","T","U","V","W","X","Y","Z">>

InvalidByte == "xFF"
ReplacementChar == "ufffd"

\* u8::to_ascii_uppercase: 'a'..'z' map to 'A'..'Z', every other byte to itself.
to_ascii_uppercase(b) ==
    IF \E i \in DOMAIN LowerCase : LowerCase[i] = b
    THEN UpperCase[CHOOSE i \in DOMAIN LowerCase : LowerCase[i] = b]
    ELSE b

RECURSIVE Concat(_)
\* Collecting a sequence of chars into a String.
Concat(cs) == IF cs = <<>> THEN "" ELSE Head(cs) \o Concat(Tail(cs))

\* command.rs ascii_upper: bytes -> uppercased String.
ascii_upper(bytes) == Concat([i \in DOMAIN bytes |-> to_ascii_uppercase(bytes[i])])

\* std::str::from_utf8(b).ok(): None when the bytes are not valid UTF-8.
from_utf8(bytes) ==
    IF \E i \in DOMAIN bytes : bytes[i] = InvalidByte THEN None ELSE Some(bytes)

\* String::from_utf8_lossy(b).to_string(): invalid bytes become U+FFFD.
from_utf8_lossy(bytes) ==
    [i \in DOMAIN bytes |-> IF bytes[i] = InvalidByte THEN ReplacementChar ELSE bytes[i]]

\* str::as_bytes
as_bytes(str) == str

\* str::to_ascii_uppercase; the result is only compared with literals.
str_to_ascii_uppercase(str) == ascii_upper(str)

\* The String literals whose bytes the code uses.
s_default == <<"d","e","f","a","u","l","t">>
b_HELLO   == <<"H","E","L","L","O">>
b_SETNAME == <<"S","E","T","N","A","M","E">>

\* i.to_string() for the one-digit integers the model sends.
Digits == <<"0","1","2","3","4","5","6","7","8","9">>
int_to_string(i) == <<Digits[i + 1]>>

-----------------------------------------------------------------------------
(* Frames.  A decoded frame is [kind, items]; an Array's items are        *)
(* [t, v]: t is the element's frame type, v its payload in bytes ([t, i]  *)
(* with the integer i for an Integer/Number).  The raw bytes of a frame are *)
(* modelled by the frame itself: the wire image of a frame is one-to-one  *)
(* with (kind, element types, payloads).                                  *)

Bulk(v)   == [t |-> "BulkString", v |-> v]
Simple(v) == [t |-> "SimpleString", v |-> v]
Integer(i) == [t |-> "Integer", i |-> i]
NullItem  == [t |-> "Null", v |-> <<>>]

ArrayFrame(items) == [kind |-> "Array", items |-> items]

\* resp.rs encode_command: a RESP Array of Bulk Strings, one per part.
encode_command(parts) == ArrayFrame([i \in DOMAIN parts |-> Bulk(parts[i])])

\* command.rs resp2_item_to_bytes / resp3_item_to_bytes (the element types
\* the model sends are common to both dialects).
item_to_bytes(it) ==
    CASE it.t = "BulkString"   -> Some(it.v)
      [] it.t = "SimpleString" -> Some(it.v)
      [] it.t = "Integer"      -> Some(int_to_string(it.i))
      [] OTHER                 -> None

-----------------------------------------------------------------------------
(* command.rs: the request parser *)

\* A Frame is the wire frame tagged with the dialect that decoded it.
Frame(resp, wire) == [resp |-> resp, wire |-> wire]

\* The exact bytes read_frame returns beside the frame.
Raw(frame) == frame.wire

ParseErr(msg) == [tag |-> "Err", err |-> msg]
HelloRequest(protover, auth, setname) ==
    [tag |-> "Hello", protover |-> protover, auth |-> auth, setname |-> setname]
ParsedCommand(name_upper, args) ==
    [tag |-> "Command", name_upper |-> name_upper, args |-> args]

RECURSIVE hello_options(_, _, _, _)
\* parse_hello_args, the while loop: idx counts the consumed arguments.
hello_options(args, idx, auth, setname) ==
    IF idx >= Len(args)
    THEN [tag |-> "Ok", auth |-> auth, setname |-> setname]
    ELSE LET token_upper == ascii_upper(args[idx + 1])
             i == idx + 1
         IN CASE token_upper = "AUTH" ->
                   IF i >= Len(args) THEN ParseErr("HELLO AUTH missing username")
                   ELSE IF i + 1 >= Len(args) THEN ParseErr("HELLO AUTH missing password")
                   ELSE hello_options(args, i + 2,
                            Some(<<from_utf8_lossy(args[i + 1]),
                                   from_utf8_lossy(args[i + 2])>>),
                            setname)
              [] token_upper = "SETNAME" ->
                   IF i >= Len(args) THEN ParseErr("HELLO SETNAME missing name")
                   ELSE hello_options(args, i + 1, auth,
                            Some(from_utf8_lossy(args[i + 1])))
              [] OTHER -> ParseErr("Unsupported HELLO option: " \o token_upper)

\* parse_hello_args(current, args): HELLO [protover] [AUTH user pass] [SETNAME name]
parse_hello_args(current, args) ==
    LET first == IF Len(args) > 0 THEN from_utf8(args[1]) ELSE None
        protover == IF first = Some(<<"2">>) THEN Some("Resp2")
                    ELSE IF first = Some(<<"3">>) THEN Some("Resp3")
                    ELSE None
        idx == IF IsSome(protover) THEN 1 ELSE 0
        opts == hello_options(args, idx, None, None)
    IN IF opts.tag = "Err" THEN opts
       ELSE HelloRequest(IF IsSome(protover) THEN protover ELSE Some(current),
                         opts.auth, opts.setname)

\* parse_resp2_command_parts / parse_resp3_command_parts
parse_command_parts(wire) ==
    IF wire.kind # "Array" THEN ParseErr("Expected Array frame for Redis request")
    ELSE IF wire.items = <<>> THEN ParseErr("Empty request array")
    ELSE IF ~IsSome(item_to_bytes(wire.items[1])) THEN ParseErr("Invalid command name frame")
    ELSE IF \E i \in 2..Len(wire.items) : ~IsSome(item_to_bytes(wire.items[i]))
         THEN ParseErr("Invalid argument frame")
    ELSE [tag |-> "Ok",
          name |-> ascii_upper(Unwrap(item_to_bytes(wire.items[1]))),
          args |-> [i \in 1..(Len(wire.items) - 1) |->
                       Unwrap(item_to_bytes(wire.items[i + 1]))]]

\* parse_resp2 and the array arm of parse_resp3
parse_array(resp, wire) ==
    LET parts == parse_command_parts(wire)
    IN IF parts.tag = "Err" THEN parts
       ELSE IF parts.name = "HELLO" THEN parse_hello_args(resp, parts.args)
       ELSE ParsedCommand(parts.name, parts.args)

\* parse_request: a RESP3 stream may decode a HELLO into the dedicated variant.
parse_request(frame) ==
    IF frame.resp = "Resp3" /\ frame.wire.kind = "Hello"
    THEN HelloRequest(Some(frame.wire.version), frame.wire.auth, frame.wire.setname)
    ELSE parse_array(frame.resp, frame.wire)

-----------------------------------------------------------------------------
(* routing.rs: the three static tables *)

is_replica_read_whitelisted(cmd_upper) ==
    cmd_upper \in {
        "PING",
        "SCAN", "SSCAN", "HSCAN", "ZSCAN",
        "GET", "MGET", "GETRANGE", "STRLEN",
        "HGET", "HMGET", "HGETALL", "HEXISTS", "HLEN", "HSTRLEN", "HKEYS", "HVALS",
        "LINDEX", "LLEN", "LRANGE",
        "SCARD", "SISMEMBER", "SMISMEMBER", "SMEMBERS", "SRANDMEMBER",
        "ZCARD", "ZCOUNT", "ZRANGE", "ZRANGEBYSCORE", "ZREVRANGE", "ZREVRANGEBYSCORE",
        "ZRANK", "ZREVRANK", "ZSCORE", "ZMSCORE",
        "EXISTS", "TYPE", "TTL", "PTTL" }

\* first_arg_upper is an Option<&str>; unwrap_or("") for CLIENT.
is_dual_forward(cmd_upper, first_arg_upper) ==
    CASE cmd_upper \in {"SELECT", "READONLY", "READWRITE"} -> TRUE
      [] cmd_upper = "CLIENT" ->
            (IF IsSome(first_arg_upper) THEN Unwrap(first_arg_upper) ELSE "")
                \in {"SETNAME", "SETINFO", "TRACKING", "CACHING", "REPLY"}
      [] cmd_upper = "HELLO" -> TRUE
      [] OTHER -> FALSE

is_always_master(cmd_upper) ==
    cmd_upper \in {
        "MULTI", "EXEC", "DISCARD", "WATCH", "UNWATCH",
        "EVAL", "EVALSHA", "EVAL_RO", "SCRIPT", "FUNCTION", "FCALL", "FCALL_RO",
        "MONITOR", "SUBSCRIBE", "PSUBSCRIBE", "SSUBSCRIBE",
        "PUNSUBSCRIBE", "UNSUBSCRIBE", "SUNSUBSCRIBE" }

-----------------------------------------------------------------------------
(* config.rs: ProxyAuth *)

\* ProxyAuth::verify
verify(proxy_auth, username, password) ==
    IF ~proxy_auth.enabled THEN TRUE
    ELSE proxy_auth.username = username /\ proxy_auth.password = password

\* ProxyAuth::disabled()
ProxyAuthDisabled == [enabled |-> FALSE, username |-> s_default, password |-> <<>>]


-----------------------------------------------------------------------------
(* resp.rs: RespStream.  A stream is [version]; its socket is the          *)
(* environment.  One handler run is a context c: the session's locals      *)
(* (c.st), the I/O it has done so far (c.ev), the result of the last call  *)
(* (c.err: it returned Err; c.rd / c.frame: what read_frame returned).     *)
(* An I/O call yields the set of contexts the socket allows, one per       *)
(* outcome; AndThen is the ? operator: an Err is returned at once.  An     *)
(* await that never completes (a peer that neither answers nor closes, a   *)
(* peer that stops reading) leaves the run blocked at that call for good.  *)

RespStream(version) == [version |-> version]

\* RespStream::set_version
set_version(stream, v) == [stream EXCEPT !.version = v]

Event(op, who, data, ok) == [op |-> op, who |-> who, data |-> data, ok |-> ok]
Log(c, op, who, data, ok) == [c EXCEPT !.ev = Append(@, Event(op, who, data, ok))]

\* c.entry keeps the locals the run started with.
Context(st) ==
    [st |-> st, ev |-> <<>>, err |-> FALSE, rd |-> "None", frame |-> None,
     flow |-> "continue", entry |-> st]

\* The ? operator (and the plain sequencing of awaits): what follows runs
\* only on the contexts whose last call returned Ok.
AndThen(S, F(_)) == UNION { IF c.err THEN {c} ELSE F(c) : c \in S }

\* A future that is never ready: nothing after it runs.
Block(c) == [c EXCEPT !.err = TRUE, !.flow = "blocked"]
Blocked(c) == c.flow = "blocked"

StreamOf(st, who) ==
    CASE who = "client" -> st.client
      [] who = "master" -> st.master
      [] who = "replica" -> Unwrap(st.replica)

\* RespStream::write_all: the socket takes the bytes, or the write fails,
\* or the peer stops reading and the write never completes.
write_all(c, who, bytes) ==
    { [Log(c, "write", who, bytes, ok) EXCEPT !.err = ~ok] : ok \in BOOLEAN }
      \cup { Block(Log(c, "write", who, bytes, FALSE)) }

\* The frames read from `who` so far in this run: a frame carries its
\* position in the peer's output, so that two frames of a kind differ.
FramesRead(c, who) ==
    Cardinality({ i \in DOMAIN c.ev : /\ c.ev[i].op = "read" /\ c.ev[i].who = who
                                       /\ c.ev[i].ok })

\* RespStream::read_frame on a backend stream, when the peer put `sent` on
\* the wire next: a reply, an error reply, a push frame, nothing before
\* closing (Eof), bytes the decoder rejects (Err), or nothing at all
\* (Silent: the read never completes).  A push frame exists in RESP3 only:
\* the RESP2 decoder rejects its type byte.
read_sent(c, who, sent) ==
    LET version == StreamOf(c.st, who).version
    IN CASE sent = "Eof" ->
              [Log(c, "read", who, [kind |-> "Eof"], TRUE)
                  EXCEPT !.rd = "Eof", !.frame = None, !.err = FALSE]
         [] sent = "Err" \/ (sent = "Push" /\ version = "Resp2") ->
              [Log(c, "read", who, [kind |-> "DecodeError"], FALSE)
                  EXCEPT !.rd = "Err", !.frame = None, !.err = TRUE]
         [] sent = "Silent" ->
              Block([Log(c, "read", who, [kind |-> "Pending"], FALSE)
                        EXCEPT !.rd = "Pending", !.frame = None])
         [] OTHER ->
              LET f == Frame(version, [kind |-> sent, src |-> who,
                                       seq |-> FramesRead(c, who)])
              IN [Log(c, "read", who, Raw(f), TRUE)
                     EXCEPT !.rd = "Frame", !.frame = Some(f), !.err = FALSE]

\* What a backend may put on the wire when it has already sent n push
\* frames ahead of the reply being awaited.
Sendable(n) ==
    {"Reply", "Error", "Eof", "Err", "Silent"}
        \cup (IF n < MaxPush THEN {"Push"} ELSE {})

\* The stream was RESP2 when the run began and has been set to RESP3 in it:
\* the peer, which spoke RESP2 until the HELLO it has not answered yet, has
\* no push frame to send ahead of that answer.
JustUpgraded(c, who) ==
    StreamOf(c.entry, who).version = "Resp2" /\ StreamOf(c.st, who).version = "Resp3"

read_frame(c, who, n) ==
    { read_sent(c, who, sent)
      : sent \in Sendable(n) \ (IF JustUpgraded(c, who) THEN {"Push"} ELSE {}) }

\* timeout(replica_timeout, rep.read_frame()): the read, or Elapsed when
\* the read is still pending after replica_timeout.
timeout_read_frame(c, who) ==
    { IF Blocked(r)
      THEN [Log(c, "read", who, [kind |-> "Timeout"], FALSE)
               EXCEPT !.rd = "Timeout", !.frame = None, !.err = FALSE]
      ELSE r
      : r \in read_frame(c, who, 0) }

\* RespStream::shutdown (best effort: its result is discarded).
shutdown(c, who) == Log(c, "shutdown", who, [kind |-> "Shutdown"], TRUE)

\* stats.rs Stats::record / record_replica_fallback, as seen by the session.
stats_record(c, route, cmd_upper) ==
    Log(c, "record", "stats", [kind |-> route, cmd |-> cmd_upper], TRUE)
stats_record_replica_fallback(c, cmd_upper) ==
    Log(c, "record_replica_fallback", "stats", [kind |-> "Replica", cmd |-> cmd_upper], TRUE)

\* The bytes of the replies the proxy writes itself.
SimpleError(text) == [kind |-> "Error", text |-> text]
SimpleOk == [kind |-> "SimpleString", text |-> "OK"]
NoAuth == SimpleError("NOAUTH Authentication required.")
WrongPass == SimpleError("WRONGPASS invalid username-password pair")
AuthArity == SimpleError("ERR wrong number of arguments for 'auth' command")
ProtocolError(msg) == SimpleError("ERR Protocol error: " \o msg)

\* Mutant of disable_replica: the socket is shut down but the handle kept.
disable_replica_keeping_handle(c) ==
    shutdown([c EXCEPT !.err = FALSE], "replica")

\* replica.take() followed by a best-effort shutdown
disable_replica(c) ==
    shutdown([c EXCEPT !.st.replica = None, !.err = FALSE], "replica")

-----------------------------------------------------------------------------
(* proxy.rs: the forwarders *)

RECURSIVE read_one_reply_loop(_, _)
\* Mutant of read_one_reply_loop: a push frame is skipped, not forwarded.
read_one_reply_loop_dropping_push(c, n) ==
    UNION { IF r.err THEN {r}
            ELSE IF r.rd = "Eof" THEN {[r EXCEPT !.err = TRUE]}
            ELSE IF Unwrap(r.frame).resp = "Resp3" /\ r.st.master.version = "Resp3"
                    /\ Unwrap(r.frame).wire.kind = "Push"
                 THEN read_one_reply_loop(r, n + 1)
            ELSE {r}
          : r \in read_frame(c, "master", n) }

\* read_one_reply_from_master: n push frames have been forwarded so far.
read_one_reply_loop(c, n) ==
    UNION { IF r.err THEN {r}
            ELSE IF r.rd = "Eof" THEN {[r EXCEPT !.err = TRUE]}
            ELSE IF Unwrap(r.frame).resp = "Resp3" /\ r.st.master.version = "Resp3"
                    /\ Unwrap(r.frame).wire.kind = "Push"
                 THEN AndThen(write_all(r, "client", Raw(Unwrap(r.frame))),
                              LAMBDA w : read_one_reply_loop(w, n + 1))
            ELSE {r}
          : r \in read_frame(c, "master", n) }

\* Mutant of read_one_reply_from_master: when master fails the client is
\* told so before the error is returned.
read_one_reply_from_master_answering(c) ==
    UNION { IF r.err /\ ~Blocked(r)
            THEN { [w EXCEPT !.err = TRUE]
                   : w \in write_all([r EXCEPT !.err = FALSE], "client",
                                     SimpleError("ERR master connection closed")) }
            ELSE {r}
          : r \in read_one_reply_loop(c, 0) }

read_one_reply_from_master(c) == read_one_reply_loop(c, 0)

\* Mutant of forward_master: the request is encoded again from its parts
\* instead of replaying the bytes read.
forward_master_reencoding(c, raw) ==
    AndThen(write_all(c, "master",
                      encode_command([i \in DOMAIN raw.items |->
                                         Unwrap(item_to_bytes(raw.items[i]))])),
            LAMBDA c1 :
    AndThen(read_one_reply_loop(c1, 0), LAMBDA c2 :
    write_all(c2, "client", Raw(Unwrap(c2.frame)))))

forward_master(c, raw) ==
    AndThen(write_all(c, "master", raw), LAMBDA c1 :
    AndThen(read_one_reply_from_master(c1), LAMBDA c2 :
    write_all(c2, "client", Raw(Unwrap(c2.frame)))))

\* Mutant of replica_write_or_disable: the write's error is propagated
\* with ?.
replica_write_or_return(c, bytes) ==
    IF ~IsSome(c.st.replica) THEN {c} ELSE write_all(c, "replica", bytes)

\* The write to the replica of forward_both and handle_hello: a failure
\* disables the replica and the handler goes on.
replica_write_or_disable(c, bytes) ==
    IF ~IsSome(c.st.replica) THEN {c}
    ELSE { IF Blocked(w) THEN w ELSE IF w.err THEN disable_replica(w) ELSE w
           : w \in write_all(c, "replica", bytes) }

\* Mutant of drain_replica: the drained reply is passed on to the client.
drain_replica_forwarding(c) ==
    IF ~IsSome(c.st.replica) THEN {c}
    ELSE UNION { IF d.rd = "Frame"
                 THEN { IF Blocked(w) THEN w ELSE [w EXCEPT !.err = FALSE]
                        : w \in write_all(d, "client", Raw(Unwrap(d.frame))) }
                 ELSE {disable_replica(d)}
                 : d \in timeout_read_frame(c, "replica") }

\* The drain of one replica reply of forward_both and handle_hello.
drain_replica(c) ==
    IF ~IsSome(c.st.replica) THEN {c}
    ELSE { IF d.rd = "Frame" THEN d ELSE disable_replica(d)
           : d \in timeout_read_frame(c, "replica") }

forward_both(c, raw) ==
    AndThen(write_all(c, "master", raw), LAMBDA c1 :
    AndThen(replica_write_or_disable(c1, raw), LAMBDA c2 :
    AndThen(read_one_reply_from_master(c2), LAMBDA c3 :
    AndThen(write_all(c3, "client", Raw(Unwrap(c3.frame))), LAMBDA c4 :
    drain_replica(c4)))))

\* Mutant of fallback_to_master: the replica's failure is returned to the
\* caller instead of asking master.
fallback_to_master_giving_up(c, raw) == { [c EXCEPT !.err = TRUE] }

\* The Result<bool> is in c.rd: "true" when the replica remains usable,
\* "false" when it must be disabled.
fallback_to_master(c, raw) ==
    { IF f.err THEN f ELSE [f EXCEPT !.rd = "false"]
      : f \in forward_master([c EXCEPT !.err = FALSE], raw) }

forward_replica_with_fallback(c, raw) ==
    UNION { IF Blocked(c1) THEN {c1}
            ELSE IF c1.err THEN fallback_to_master(c1, raw)
            ELSE UNION { IF r.rd = "Frame"
                         THEN { IF w.err THEN w ELSE [w EXCEPT !.rd = "true"]
                                : w \in write_all(r, "client", Raw(Unwrap(r.frame))) }
                         ELSE fallback_to_master(r, raw)
                       : r \in timeout_read_frame(c1, "replica") }
          : c1 \in write_all(c, "replica", raw) }

-----------------------------------------------------------------------------
(* proxy.rs: routing decision, state overlay, local commands *)

\* Mutant of is_auth_exempt: PING is let through as a health check.
is_auth_exempt_with_ping(cmd) == cmd.name_upper \in {"AUTH", "HELLO", "QUIT", "PING"}

is_auth_exempt(cmd) == cmd.name_upper \in {"AUTH", "HELLO", "QUIT"}

\* Mutant of decide_route: the dual-forward rule is tried before the
\* force-master contexts.
decide_route_dual_first(cmd, first_arg_upper, state, replica_available) ==
    IF is_dual_forward(cmd.name_upper, first_arg_upper) THEN "Both"
    ELSE IF state.in_multi \/ state.watch_active THEN "Master"
    ELSE IF is_always_master(cmd.name_upper) THEN "Master"
    ELSE IF replica_available /\ is_replica_read_whitelisted(cmd.name_upper) THEN "Replica"
    ELSE "Master"

\* Mutant of decide_route: the whitelist test is dropped from rule 4.
decide_route_without_whitelist(cmd, first_arg_upper, state, replica_available) ==
    IF state.in_multi \/ state.watch_active THEN "Master"
    ELSE IF is_always_master(cmd.name_upper) THEN "Master"
    ELSE IF is_dual_forward(cmd.name_upper, first_arg_upper) THEN "Both"
    ELSE IF replica_available THEN "Replica"
    ELSE "Master"

decide_route(cmd, first_arg_upper, state, replica_available) ==
    IF state.in_multi \/ state.watch_active THEN "Master"
    ELSE IF is_always_master(cmd.name_upper) THEN "Master"
    ELSE IF is_dual_forward(cmd.name_upper, first_arg_upper) THEN "Both"
    ELSE IF replica_available /\ is_replica_read_whitelisted(cmd.name_upper) THEN "Replica"
    ELSE "Master"

\* Mutant of update_state: SELECT drops the transaction and the watch.
update_state_reset_on_select(state, cmd) ==
    CASE cmd.name_upper = "MULTI" -> [state EXCEPT !.in_multi = TRUE]
      [] cmd.name_upper \in {"EXEC", "DISCARD", "SELECT"} ->
            [state EXCEPT !.in_multi = FALSE, !.watch_active = FALSE]
      [] cmd.name_upper = "WATCH" -> [state EXCEPT !.watch_active = TRUE]
      [] cmd.name_upper = "UNWATCH" -> [state EXCEPT !.watch_active = FALSE]
      [] OTHER -> state

\* Mutant of update_state: EXEC and DISCARD end the transaction only, the
\* watch stays.
update_state_keeping_watch(state, cmd) ==
    CASE cmd.name_upper = "MULTI" -> [state EXCEPT !.in_multi = TRUE]
      [] cmd.name_upper \in {"EXEC", "DISCARD"} -> [state EXCEPT !.in_multi = FALSE]
      [] cmd.name_upper = "WATCH" -> [state EXCEPT !.watch_active = TRUE]
      [] cmd.name_upper = "UNWATCH" -> [state EXCEPT !.watch_active = FALSE]
      [] OTHER -> state

update_state(state, cmd) ==
    CASE cmd.name_upper = "MULTI" -> [state EXCEPT !.in_multi = TRUE]
      [] cmd.name_upper \in {"EXEC", "DISCARD"} ->
            [state EXCEPT !.in_multi = FALSE, !.watch_active = FALSE]
      [] cmd.name_upper = "WATCH" -> [state EXCEPT !.watch_active = TRUE]
      [] cmd.name_upper = "UNWATCH" -> [state EXCEPT !.watch_active = FALSE]
      [] OTHER -> state

\* Mutant of handle_auth: a wrong password logs the session out.
handle_auth_resetting(c, proxy_auth, cmd) ==
    IF Len(cmd.args) \notin {1, 2} THEN write_all(c, "client", AuthArity)
    ELSE LET user == IF Len(cmd.args) = 1 THEN s_default
                     ELSE from_utf8_lossy(cmd.args[1])
             pass == IF Len(cmd.args) = 1 THEN from_utf8_lossy(cmd.args[1])
                     ELSE from_utf8_lossy(cmd.args[2])
         IN IF verify(proxy_auth, user, pass)
            THEN write_all([c EXCEPT !.st.authenticated = TRUE], "client", SimpleOk)
            ELSE write_all([c EXCEPT !.st.authenticated = FALSE], "client", WrongPass)

handle_auth(c, proxy_auth, cmd) ==
    IF Len(cmd.args) \notin {1, 2} THEN write_all(c, "client", AuthArity)
    ELSE LET user == IF Len(cmd.args) = 1 THEN s_default
                     ELSE from_utf8_lossy(cmd.args[1])
             pass == IF Len(cmd.args) = 1 THEN from_utf8_lossy(cmd.args[1])
                     ELSE from_utf8_lossy(cmd.args[2])
         IN IF verify(proxy_auth, user, pass)
            THEN write_all([c EXCEPT !.st.authenticated = TRUE], "client", SimpleOk)
            ELSE write_all(c, "client", WrongPass)

\* handle_hello, lines 282-292: the HELLO sent to the backends.
hello_command(target, setname) ==
    encode_command(<<b_HELLO, IF target = "Resp2" THEN <<"2">> ELSE <<"3">> >>
                   \o (IF IsSome(setname)
                       THEN <<b_SETNAME, as_bytes(Unwrap(setname))>> ELSE <<>>))

\* Mutant of hello_replica_write: the replica's version is not flipped.
hello_replica_write_without_flip(c, hello_cmd, target) ==
    IF ~IsSome(c.st.replica) THEN {c}
    ELSE { IF Blocked(w) THEN w ELSE IF w.err THEN disable_replica(w) ELSE w
           : w \in write_all(c, "replica", hello_cmd) }

\* handle_hello, lines 305-325: write to the replica, then flip its version.
hello_replica_write(c, hello_cmd, target) ==
    IF ~IsSome(c.st.replica) THEN {c}
    ELSE { IF Blocked(w) THEN w
           ELSE IF w.err THEN disable_replica(w)
           ELSE Log([w EXCEPT !.st.replica = Some(set_version(Unwrap(@), target))],
                    "set_version", "replica", [kind |-> target], TRUE)
           : w \in write_all(c, "replica", hello_cmd) }

\* Mutant of hello_forward: the client's version is set together with
\* master's, before master's reply is read.
hello_forward_flipping_client_early(c, hello) ==
    LET target == IF IsSome(hello.protover) THEN Unwrap(hello.protover)
                  ELSE c.st.client.version
        hello_cmd == hello_command(target, hello.setname)
        c0 == stats_record(c, IF IsSome(c.st.replica) THEN "Both" ELSE "Master", "HELLO")
    IN AndThen(write_all(c0, "master", hello_cmd), LAMBDA c1 :
       AndThen(hello_replica_write(
                   Log(Log([c1 EXCEPT !.st.master = set_version(@, target),
                                      !.st.client = set_version(@, target)],
                           "set_version", "master", [kind |-> target], TRUE),
                       "set_version", "client", [kind |-> target], TRUE),
                   hello_cmd, target), LAMBDA c3 :
       AndThen(read_one_reply_from_master(c3), LAMBDA c4 :
       AndThen(write_all(c4, "client", Raw(Unwrap(c4.frame))), LAMBDA c6 :
       drain_replica(c6)))))

\* handle_hello after the auth check (lines 275-363).
hello_forward(c, hello) ==
    LET target == IF IsSome(hello.protover) THEN Unwrap(hello.protover)
                  ELSE c.st.client.version
        hello_cmd == hello_command(target, hello.setname)
        c0 == stats_record(c, IF IsSome(c.st.replica) THEN "Both" ELSE "Master", "HELLO")
    IN AndThen(write_all(c0, "master", hello_cmd), LAMBDA c1 :
       AndThen(hello_replica_write(
                   Log([c1 EXCEPT !.st.master = set_version(@, target)],
                       "set_version", "master", [kind |-> target], TRUE),
                   hello_cmd, target), LAMBDA c3 :
       AndThen(read_one_reply_from_master(c3), LAMBDA c4 :
       AndThen(write_all(Log([c4 EXCEPT !.st.client = set_version(@, target)],
                             "set_version", "client", [kind |-> target], TRUE),
                         "client", Raw(Unwrap(c4.frame))), LAMBDA c6 :
       drain_replica(c6)))))

\* Mutant of handle_hello: the client's version follows the HELLO before
\* the credentials are checked.
handle_hello_flipping_before_auth(c, proxy_auth, hello) ==
    LET target == IF IsSome(hello.protover) THEN Unwrap(hello.protover)
                  ELSE c.st.client.version
        cv == [c EXCEPT !.st.client = set_version(@, target)]
    IN IF proxy_auth.enabled /\ IsSome(hello.auth)
             /\ ~verify(proxy_auth, Unwrap(hello.auth)[1], Unwrap(hello.auth)[2])
       THEN write_all(cv, "client", WrongPass)
       ELSE LET c0 == IF proxy_auth.enabled /\ IsSome(hello.auth)
                      THEN [cv EXCEPT !.st.authenticated = TRUE] ELSE cv
            IN IF proxy_auth.enabled /\ ~c0.st.authenticated
               THEN write_all(c0, "client", NoAuth)
               ELSE hello_forward(c0, hello)

handle_hello(c, proxy_auth, hello) ==
    IF proxy_auth.enabled /\ IsSome(hello.auth)
          /\ ~verify(proxy_auth, Unwrap(hello.auth)[1], Unwrap(hello.auth)[2])
    THEN write_all(c, "client", WrongPass)
    ELSE LET c0 == IF proxy_auth.enabled /\ IsSome(hello.auth)
                   THEN [c EXCEPT !.st.authenticated = TRUE] ELSE c
         IN IF proxy_auth.enabled /\ ~c0.st.authenticated
            THEN write_all(c0, "client", NoAuth)
            ELSE hello_forward(c0, hello)

\* Mutant of forward_by_route: a fallback is counted on the Master row too,
\* as a request master served.
forward_by_route_counting_fallback_twice(c, route, cmd, raw) ==
    CASE route = "Master" ->
            forward_master(stats_record(c, "Master", cmd.name_upper), raw)
      [] route = "Replica" ->
            IF IsSome(c.st.replica)
            THEN { IF f.err THEN f
                   ELSE IF f.rd = "false"
                   THEN [stats_record(stats_record_replica_fallback(f, cmd.name_upper),
                                      "Master", cmd.name_upper)
                            EXCEPT !.st.replica = None]
                   ELSE f
                   : f \in forward_replica_with_fallback(
                              stats_record(c, "Replica", cmd.name_upper), raw) }
            ELSE forward_master(stats_record(c, "Master", cmd.name_upper), raw)
      [] route = "Both" ->
            IF IsSome(c.st.replica)
            THEN forward_both(stats_record(c, "Both", cmd.name_upper), raw)
            ELSE forward_master(stats_record(c, "Master", cmd.name_upper), raw)

\* handle_client_inner, the match on route (lines 108-150)
forward_by_route(c, route, cmd, raw) ==
    CASE route = "Master" ->
            forward_master(stats_record(c, "Master", cmd.name_upper), raw)
      [] route = "Replica" ->
            IF IsSome(c.st.replica)
            THEN { IF f.err THEN f
                   ELSE IF f.rd = "false"
                   THEN [stats_record_replica_fallback(f, cmd.name_upper)
                            EXCEPT !.st.replica = None]
                   ELSE f
                   : f \in forward_replica_with_fallback(
                              stats_record(c, "Replica", cmd.name_upper), raw) }
            ELSE forward_master(stats_record(c, "Master", cmd.name_upper), raw)
      [] route = "Both" ->
            IF IsSome(c.st.replica)
            THEN forward_both(stats_record(c, "Both", cmd.name_upper), raw)
            ELSE forward_master(stats_record(c, "Master", cmd.name_upper), raw)

\* Lines 99-103: the first argument, uppercased, when it is valid UTF-8.
first_arg_upper(cmd) ==
    LET first == IF Len(cmd.args) > 0 THEN from_utf8(cmd.args[1]) ELSE None
    IN IF IsSome(first) THEN Some(str_to_ascii_uppercase(Unwrap(first))) ELSE None

\* Mutant of handle_command: AUTH is answered locally only when ProxyAuth
\* is enabled, and passed through otherwise.
handle_command_passing_auth(c, proxy_auth, cmd, raw) ==
    IF ~c.st.authenticated /\ ~is_auth_exempt(cmd) THEN write_all(c, "client", NoAuth)
    ELSE IF cmd.name_upper = "AUTH" /\ proxy_auth.enabled THEN handle_auth(c, proxy_auth, cmd)
    ELSE IF cmd.name_upper = "QUIT"
         THEN { IF w.err THEN w ELSE [w EXCEPT !.flow = "break"]
                : w \in write_all(c, "client", SimpleOk) }
    ELSE LET route == decide_route(cmd, first_arg_upper(cmd), c.st.state,
                                   IsSome(c.st.replica))
         IN { IF f.err THEN f ELSE [f EXCEPT !.st.state = update_state(@, cmd)]
              : f \in forward_by_route(c, route, cmd, raw) }

\* handle_client_inner, Request::Command arm (lines 79-153)
handle_command(c, proxy_auth, cmd, raw) ==
    IF ~c.st.authenticated /\ ~is_auth_exempt(cmd) THEN write_all(c, "client", NoAuth)
    ELSE IF cmd.name_upper = "AUTH" THEN handle_auth(c, proxy_auth, cmd)
    ELSE IF cmd.name_upper = "QUIT"
         THEN { IF w.err THEN w ELSE [w EXCEPT !.flow = "break"]
                : w \in write_all(c, "client", SimpleOk) }
    ELSE LET route == decide_route(cmd, first_arg_upper(cmd), c.st.state,
                                   IsSome(c.st.replica))
         IN { IF f.err THEN f ELSE [f EXCEPT !.st.state = update_state(@, cmd)]
              : f \in forward_by_route(c, route, cmd, raw) }

\* Mutant of shutdown_all: the replica stream is left to be dropped.
shutdown_all_skipping_replica(c) == shutdown(shutdown(c, "master"), "client")

\* Best-effort shutdown after the loop (lines 157-164)
shutdown_all(c) ==
    LET m == shutdown(c, "master")
        r == IF IsSome(m.st.replica) THEN shutdown(m, "replica") ELSE m
    IN shutdown(r, "client")

\* One iteration of the loop of handle_client_inner on a decoded frame.
handle_frame(c, proxy_auth, frame) ==
    LET req == parse_request(frame)
        H == CASE req.tag = "Err" ->
                    \* the reply is best effort (let _ =), then return Err(e)
                    { [w EXCEPT !.err = TRUE]
                      : w \in write_all(c, "client", ProtocolError(req.err)) }
               [] req.tag = "Hello" -> handle_hello(c, proxy_auth, req)
               [] OTHER -> handle_command(c, proxy_auth, req, Raw(frame))
    IN { IF Blocked(h) THEN h
         ELSE IF h.err THEN [h EXCEPT !.flow = "return_err"]
         ELSE IF h.flow = "break" THEN shutdown_all(h)
         ELSE h
         : h \in H }

-----------------------------------------------------------------------------
(* The inputs: configurations and client frames *)

s_admin  == <<"a","d","m","i","n">>
s_secret == <<"s","e","c","r","e","t">>
s_bad    == <<"b","a","d">>
s_app    == <<"a","p","p">>

\* main.rs lines 63-70: --password absent disables ProxyAuth; --username
\* defaults to "default".  Any String can be a password.
ProxyAuths ==
    { ProxyAuthDisabled,
      [enabled |-> TRUE, username |-> s_default, password |-> s_secret],
      [enabled |-> TRUE, username |-> s_admin,   password |-> s_secret],
      [enabled |-> TRUE, username |-> s_default, password |-> <<ReplacementChar>>] }

b_GET == <<"G","E","T">>
b_get == <<"g","e","t">>
b_SET == <<"S","E","T">>
b_PING == <<"P","I","N","G">>
b_MULTI == <<"M","U","L","T","I">>
b_EXEC == <<"E","X","E","C">>
b_DISCARD == <<"D","I","S","C","A","R","D">>
b_WATCH == <<"W","A","T","C","H">>
b_UNWATCH == <<"U","N","W","A","T","C","H">>
b_SELECT == <<"S","E","L","E","C","T">>
b_CLIENT == <<"C","L","I","E","N","T">>
b_setname == <<"s","e","t","n","a","m","e">>
b_LIST == <<"L","I","S","T">>
b_EVAL == <<"E","V","A","L">>
b_AUTH == <<"A","U","T","H">>
b_auth == <<"a","u","t","h">>
b_QUIT == <<"Q","U","I","T">>
b_hello == <<"h","e","l","l","o">>
b_k == <<"k">>
b_v == <<"v">>

Cmd(parts) == encode_command(parts)

\* Array requests every dialect decodes.
CommandWires ==
    { Cmd(<<b_GET, b_k>>), Cmd(<<b_get, b_k>>), Cmd(<<b_SET, b_k, b_v>>),
      ArrayFrame(<<Simple(b_PING)>>),
      Cmd(<<b_MULTI>>), Cmd(<<b_EXEC>>), Cmd(<<b_DISCARD>>),
      Cmd(<<b_WATCH, b_k>>), Cmd(<<b_UNWATCH>>),
      ArrayFrame(<<Bulk(b_SELECT), Integer(1)>>),
      Cmd(<<b_CLIENT, b_setname, s_app>>), Cmd(<<b_CLIENT, b_LIST>>),
      Cmd(<<b_CLIENT, <<InvalidByte>> >>),
      Cmd(<<b_EVAL, b_k>>),
      ArrayFrame(<<Integer(1)>>),
      Cmd(<<b_QUIT>>) }

AuthWires ==
    { Cmd(<<b_AUTH>>), Cmd(<<b_AUTH, s_secret>>), Cmd(<<b_auth, s_bad>>),
      Cmd(<<b_AUTH, <<InvalidByte>> >>),
      Cmd(<<b_AUTH, s_default, s_secret>>), Cmd(<<b_AUTH, s_admin, s_secret>>),
      Cmd(<<b_AUTH, s_admin, s_bad>>), Cmd(<<b_AUTH, s_default, s_secret, s_bad>>) }

HelloWires ==
    { Cmd(<<b_HELLO>>), Cmd(<<b_HELLO, <<"2">> >>), Cmd(<<b_hello, <<"3">> >>),
      Cmd(<<b_HELLO, <<"3">>, b_AUTH, s_default, s_secret>>),
      Cmd(<<b_HELLO, <<"3">>, b_auth, s_admin, s_bad>>),
      Cmd(<<b_HELLO, b_AUTH, s_default, <<InvalidByte>> >>),
      Cmd(<<b_HELLO, <<"3">>, b_setname, s_app>>),
      Cmd(<<b_HELLO, <<"3">>, b_AUTH, s_admin, s_secret, b_SETNAME, s_app>>) }

\* Frames the parser rejects.
BadWires ==
    { [kind |-> "SimpleString", items |-> <<>>],
      ArrayFrame(<<>>),
      ArrayFrame(<<NullItem>>),
      ArrayFrame(<<Bulk(b_GET), NullItem>>),
      Cmd(<<b_HELLO, <<"4">> >>),
      Cmd(<<b_HELLO, b_AUTH, s_default>>),
      Cmd(<<b_HELLO, <<"3">>, b_SETNAME>>) }

\* The dedicated HELLO frame of the RESP3 decoder.
NativeHello(version, auth, setname) ==
    [kind |-> "Hello", items |-> <<>>, version |-> version, auth |-> auth,
     setname |-> setname]
NativeHelloWires ==
    { NativeHello("Resp3", None, None),
      NativeHello("Resp2", Some(<<s_default, s_secret>>), Some(s_app)) }

\* What the client stream can decode under its current version.
ClientWires(version) ==
    CommandWires \cup AuthWires \cup HelloWires \cup BadWires
        \cup (IF version = "Resp3" THEN NativeHelloWires ELSE {})

-----------------------------------------------------------------------------
(* proxy.rs: connect_and_handshake *)

\* config.rs RedisEndpoint: the optional parts of a redis:// URL.
RedisEndpoint(username, password, db) ==
    [username |-> username, password |-> password, db |-> db]

\* The endpoints a configuration can name: no credentials and no db, a
\* password and a db, a username and a password.
Endpoints ==
    { RedisEndpoint(None, None, None),
      RedisEndpoint(None, Some(s_secret), Some(1)),
      RedisEndpoint(Some(s_admin), Some(s_secret), None) }

\* The connector's locals: the stream being set up, under its backend's name.
ConnectorLocals(who, stream) ==
    IF who = "master" THEN [master |-> stream] ELSE [replica |-> Some(stream)]

\* timeout(connect_timeout, TcpStream::connect(addr)) and set_nodelay: the
\* socket, an I/O error, or Elapsed when the connect is still pending.
tcp_connect(c, who) ==
    { Log(c, "connect", who, [kind |-> "Connected"], TRUE),
      [Log(c, "connect", who, [kind |-> "Refused"], FALSE) EXCEPT !.err = TRUE],
      [Log(c, "connect", who, [kind |-> "Elapsed"], FALSE) EXCEPT !.err = TRUE] }

\* Mutant of is_error_reply: no frame counts as an error reply.
is_error_reply_accepting_all(frame) == FALSE

is_error_reply(frame) == frame.wire.kind = "Error"

\* resp.rs encode_command_str
encode_command_str(parts) == encode_command([i \in DOMAIN parts |-> as_bytes(parts[i])])

\* One handshake command: write it, read one frame; EOF and an error reply
\* fail the handshake.  Neither await is under a timeout.
handshake_command(c, who, cmd) ==
    AndThen(write_all(c, who, cmd), LAMBDA c1 :
    { IF r.err THEN r
      ELSE IF r.rd = "Eof" THEN [r EXCEPT !.err = TRUE]
      ELSE IF is_error_reply(Unwrap(r.frame)) THEN [r EXCEPT !.err = TRUE]
      ELSE r
      : r \in read_frame(c1, who, 0) })

\* Lines 507-521: AUTH user pass, or AUTH pass when the URL has no username.
backend_auth_command(endpoint) ==
    IF IsSome(endpoint.username)
    THEN encode_command(<<b_AUTH, as_bytes(Unwrap(endpoint.username)),
                          as_bytes(Unwrap(endpoint.password))>>)
    ELSE encode_command(<<b_AUTH, as_bytes(Unwrap(endpoint.password))>>)

\* connect_and_handshake(endpoint, connect_timeout): Ok(stream) is a context
\* without err, whose stream is StreamOf(c.st, who).
connect_and_handshake(who, endpoint) ==
    AndThen(tcp_connect(Context(ConnectorLocals(who, RespStream("Resp2"))), who),
            LAMBDA c1 :
    AndThen(IF IsSome(endpoint.password)
            THEN handshake_command(c1, who, backend_auth_command(endpoint))
            ELSE {c1}, LAMBDA c2 :
    IF IsSome(endpoint.db)
    THEN handshake_command(c2, who,
             encode_command_str(<<b_SELECT, int_to_string(Unwrap(endpoint.db))>>))
    ELSE {c2}))

-----------------------------------------------------------------------------
(* The session: handle_client_inner *)

VARIABLES
    pc,             \* "connect", "connected" (both connectors have returned),
                    \* "loop" (about to read a client frame),
                    \* "served" (an iteration has finished), "closed",
                    \* "blocked" (stuck for good in an await)
    proxy_auth,     \* cfg.proxy_auth
    client,         \* RespStream of the client socket
    master,         \* Option: the master stream once connected
    replica,        \* Option<RespStream>
    authenticated,
    state,          \* ConnState [in_multi, watch_active]
    req,            \* Option: the frame the last iteration read
    parsed,         \* Option: what parse_request returned for it
    pre,            \* Option: the session's locals before that iteration
    ev,             \* the I/O of the last iteration, in order
    flow,           \* how the last iteration ended
    presented,      \* history: matching credentials have been presented
    owed,           \* history: per backend, the requests written to it whose
                    \* reply the proxy has not read yet
    owed_pre,       \* history: owed before the last iteration
    master_tx       \* history: the transaction state of the master connection
                    \* [in_multi, watching], as the requests written to it
                    \* leave it

vars == <<pc, proxy_auth, client, master, replica, authenticated, state,
          req, parsed, pre, ev, flow, presented, owed, owed_pre, master_tx>>

Locals ==
    [client |-> client, master |-> Unwrap(master), replica |-> replica,
     authenticated |-> authenticated, state |-> state]

\* The (user, password) byte strings a request presents, if any: the
\* arguments of AUTH ("default" for the one-argument form), the pair of a
\* dedicated HELLO frame, the two arguments after an AUTH token of HELLO.
PresentedCredentials(wire) ==
    IF wire.kind = "Hello"
    THEN (IF IsSome(wire.auth) THEN {Unwrap(wire.auth)} ELSE {})
    ELSE LET parts == parse_command_parts(wire)
         IN IF parts.tag = "Err" THEN {}
            ELSE IF parts.name = "AUTH"
            THEN (IF Len(parts.args) = 1 THEN {<<s_default, parts.args[1]>>}
                  ELSE IF Len(parts.args) = 2 THEN {<<parts.args[1], parts.args[2]>>}
                  ELSE {})
            ELSE IF parts.name = "HELLO"
            THEN { <<parts.args[j + 1], parts.args[j + 2]>> :
                     j \in { k \in 1..(Len(parts.args) - 2) :
                               ascii_upper(parts.args[k]) = "AUTH" } }
            ELSE {}

PresentsConfigured(wire) ==
    <<proxy_auth.username, proxy_auth.password>> \in PresentedCredentials(wire)

Init ==
    /\ pc = "connect"
    /\ proxy_auth \in ProxyAuths
    /\ client = RespStream("Resp2")
    /\ master = None
    /\ replica = None
    /\ authenticated = FALSE
    /\ state = [in_multi |-> FALSE, watch_active |-> FALSE]
    /\ req = None
    /\ parsed = None
    /\ pre = None
    /\ ev = <<>>
    /\ flow = "start"
    /\ presented = FALSE
    /\ owed = [master |-> 0, replica |-> 0]
    /\ owed_pre = [master |-> 0, replica |-> 0]
    /\ master_tx = [in_multi |-> FALSE, watching |-> FALSE]

\* Lines 33-46: connect both backends in turn; only a master failure is
\* fatal.  ev is the I/O of the two connectors.
Connect ==
    /\ pc = "connect"
    /\ \E master_endpoint \in Endpoints, replica_endpoint \in Endpoints :
       \E m \in connect_and_handshake("master", master_endpoint) :
          IF m.err
          THEN /\ pc' = IF Blocked(m) THEN "blocked" ELSE "closed"
               /\ flow' = IF Blocked(m) THEN "blocked" ELSE "return_err"
               /\ ev' = m.ev
               /\ UNCHANGED <<master, replica, authenticated>>
          ELSE \E r \in connect_and_handshake("replica", replica_endpoint) :
               /\ ev' = m.ev \o r.ev
               /\ master' = Some(m.st.master)
               /\ IF Blocked(r)
                  THEN /\ pc' = "blocked"
                       /\ flow' = "blocked"
                       /\ UNCHANGED <<replica, authenticated>>
                  ELSE /\ pc' = "connected"
                       /\ flow' = "continue"
                       /\ replica' = IF r.err THEN None ELSE r.st.replica
                       /\ authenticated' = ~proxy_auth.enabled
    /\ UNCHANGED <<proxy_auth, client, state, req, parsed, pre, presented, owed, owed_pre,
                   master_tx>>

RECURSIVE Outstanding(_, _, _)
\* The replies `who` owes after the I/O evs when it owed n before: a
\* request written in full adds one, a reply read takes one away.
Outstanding(n, who, evs) ==
    IF evs = <<>> THEN n
    ELSE LET e == Head(evs)
             m == IF e.who = who /\ e.op = "write" /\ e.ok THEN n + 1
                  ELSE IF e.who = who /\ e.op = "read" /\ e.ok
                          /\ e.data.kind \in {"Reply", "Error"} /\ n > 0
                  THEN n - 1
                  ELSE n
         IN Outstanding(m, who, Tail(evs))

Min(a, b) == IF a <= b THEN a ELSE b

\* owed after a run: a backend whose stream is gone owes nothing.
OwedAfter(c) ==
    [master  |-> Min(MaxOwed, Outstanding(owed.master, "master", c.ev)),
     replica |-> IF IsSome(c.st.replica)
                 THEN Min(MaxOwed, Outstanding(owed.replica, "replica", c.ev))
                 ELSE 0]

\* The master connection on receiving a request: MULTI opens a
\* transaction, EXEC and DISCARD end it and drop the watches, WATCH sets a
\* watch, UNWATCH drops the watches; any other request leaves it alone.
master_receives(tx, wire) ==
    LET parts == parse_command_parts(wire)
        name == IF parts.tag = "Err" THEN "" ELSE parts.name
    IN CASE name = "MULTI" -> [tx EXCEPT !.in_multi = TRUE]
         [] name \in {"EXEC", "DISCARD"} -> [in_multi |-> FALSE, watching |-> FALSE]
         [] name = "WATCH" -> [tx EXCEPT !.watching = TRUE]
         [] name = "UNWATCH" -> [tx EXCEPT !.watching = FALSE]
         [] OTHER -> tx

RECURSIVE master_after(_, _)
\* The master connection after the I/O evs: it receives what was written
\* to it in full.
master_after(tx, evs) ==
    IF evs = <<>> THEN tx
    ELSE LET e == Head(evs)
         IN master_after(IF e.op = "write" /\ e.who = "master" /\ e.ok
                         THEN master_receives(tx, e.data) ELSE tx,
                         Tail(evs))

\* The version a request asks its receiver to switch to: the protover of
\* a HELLO (the encoding hello_command writes), None for any other request.
hello_protover(wire) ==
    LET parts == parse_command_parts(wire)
    IN IF parts.tag = "Err" THEN None
       ELSE IF parts.name # "HELLO" \/ Len(parts.args) = 0 THEN None
       ELSE IF parts.args[1] = <<"2">> THEN Some("Resp2")
       ELSE IF parts.args[1] = <<"3">> THEN Some("Resp3")
       ELSE None

RECURSIVE backend_after(_, _, _, _, _)
\* The versions the server behind `who` may speak after the I/O evs, when
\* it spoke v and owed n replies before.  A server that receives a HELLO
\* switches to its protover when it accepts the HELLO and stays as it is
\* when it answers with an error reply.  `asked` is the protover of a HELLO
\* written while nothing was owed, whose reply is therefore the next reply
\* read: that reply tells which of the two happened.  The answer to a HELLO
\* written behind owed replies, or never read, is not seen: both outcomes
\* are possible.
backend_after(v, asked, who, n, evs) ==
    IF evs = <<>> THEN (IF IsSome(asked) THEN {v, Unwrap(asked)} ELSE {v})
    ELSE LET e == Head(evs)
             rest == Tail(evs)
         IN IF e.who = who /\ e.op = "write" /\ e.ok
            THEN LET t == hello_protover(e.data)
                 IN IF ~IsSome(t) THEN backend_after(v, asked, who, n + 1, rest)
                    ELSE IF n = 0
                    THEN backend_after(v, t, who, n + 1, rest)
                    ELSE backend_after(v, asked, who, n + 1, rest)
                            \cup backend_after(Unwrap(t), asked, who, n + 1, rest)
            ELSE IF e.who = who /\ e.op = "read" /\ e.ok
                    /\ e.data.kind \in {"Reply", "Error"}
            THEN backend_after(IF IsSome(asked) /\ e.data.kind = "Reply"
                               THEN Unwrap(asked) ELSE v,
                               None, who, IF n > 0 THEN n - 1 ELSE 0, rest)
            ELSE backend_after(v, asked, who, n, rest)

Apply(c) ==
    /\ client' = c.st.client
    /\ master' = Some(c.st.master)
    /\ replica' = c.st.replica
    /\ authenticated' = c.st.authenticated
    /\ state' = c.st.state
    /\ ev' = c.ev
    /\ flow' = c.flow
    /\ pc' = CASE c.flow = "continue" -> "served"
                [] c.flow = "blocked" -> "blocked"
                [] OTHER -> "closed"

\* Lines 48-155: the loop reads one frame and serves it.
Serve ==
    /\ pc = "loop"
    /\ \E wire \in ClientWires(client.version) :
          /\ \E c \in handle_frame(Context(Locals), proxy_auth,
                                   Frame(client.version, wire)) :
                /\ Apply(c)
                /\ owed' = OwedAfter(c)
                /\ master_tx' = master_after(master_tx, c.ev)
          /\ req' = Some(wire)
          /\ parsed' = Some(parse_request(Frame(client.version, wire)))
          /\ presented' = (presented \/ PresentsConfigured(wire))
    /\ pre' = Some(Locals)
    /\ owed_pre' = owed
    /\ UNCHANGED proxy_auth

\* Line 49-51: clean EOF from the client ends the loop; streams are shut down.
ClientEof ==
    /\ pc = "loop"
    /\ Apply([shutdown_all(Context(Locals)) EXCEPT !.flow = "break"])
    /\ req' = None
    /\ parsed' = None
    /\ pre' = Some(Locals)
    /\ UNCHANGED <<proxy_auth, presented, owed, owed_pre, master_tx>>

\* Line 49: client.read_frame().await? on bytes the decoder rejects.
ClientDecodeError ==
    /\ pc = "loop"
    /\ Apply([Context(Locals) EXCEPT !.flow = "return_err"])
    /\ req' = None
    /\ parsed' = None
    /\ pre' = Some(Locals)
    /\ UNCHANGED <<proxy_auth, presented, owed, owed_pre, master_tx>>

\* continue / the end of the loop body: back to reading the next frame.
\* The record of the finished iteration (req, parsed, pre, ev) is dropped.
LoopBack ==
    /\ pc \in {"connected", "served"}
    /\ pc' = "loop"
    /\ req' = None
    /\ parsed' = None
    /\ pre' = None
    /\ ev' = <<>>
    /\ owed_pre' = owed
    /\ UNCHANGED <<proxy_auth, client, master, replica, authenticated, state,
                   flow, presented, owed, master_tx>>

Next == Connect \/ Serve \/ ClientEof \/ ClientDecodeError \/ LoopBack

Spec == Init /\ [][Next]_vars


-----------------------------------------------------------------------------
(* Reading the record of the last iteration *)

Served == IsSome(req)
Before == Unwrap(pre)
Request == Unwrap(parsed)
IsCommand == Request.tag = "Command"
IsHello == Request.tag = "Hello"

Writes(who) == { i \in DOMAIN ev : ev[i].op = "write" /\ ev[i].who = who }
Reads(who) == { i \in DOMAIN ev : ev[i].op = "read" /\ ev[i].who = who }
BackendWrites == Writes("master") \cup Writes("replica")

\* Frames the client received in full.
Delivered == { i \in Writes("client") : ev[i].ok }
\* Push frames of master forwarded on the way to its reply.
MasterPushes ==
    { i \in Delivered : \E n \in 0..MaxPush :
          ev[i].data = [kind |-> "Push", src |-> "master", seq |-> n] }
ReplyFrames == Delivered \ MasterPushes
NonPushReplies == { i \in Delivered : ev[i].data.kind # "Push" }

\* The call the run is stuck in, if it is stuck.
Stalled == IF flow = "blocked" THEN {Len(ev)} ELSE {}

\* A failure of the replica socket seen by the session.
ReplicaFailures ==
    { i \in DOMAIN ev \ Stalled :
         /\ ev[i].who = "replica"
         /\ \/ ev[i].op = "write" /\ ~ev[i].ok
            \/ ev[i].op = "read" /\ ev[i].data.kind \in {"Eof", "DecodeError", "Timeout"} }

\* A failure of the master socket seen by the session.
MasterFailures ==
    { i \in DOMAIN ev \ Stalled :
         /\ ev[i].who = "master"
         /\ \/ ev[i].op = "write" /\ ~ev[i].ok
            \/ ev[i].op = "read" /\ ev[i].data.kind \in {"Eof", "DecodeError"} }

\* A failed write to the client.
ClientFailures ==
    { i \in DOMAIN ev \ Stalled :
         ev[i].who = "client" /\ ev[i].op = "write" /\ ~ev[i].ok }

\* The frames a backend can have sent.
FramesFrom(who, kinds) ==
    { [kind |-> k, src |-> who, seq |-> n] : k \in kinds, n \in 0..MaxPush }

\* Replies of master (not push frames) the client received.
MasterReplies ==
    { i \in Delivered : ev[i].data \in FramesFrom("master", {"Reply", "Error"}) }

\* The route the iteration counted the request under.
RouteRecorded(route) ==
    \E i \in DOMAIN ev : ev[i].op = "record" /\ ev[i].data.kind = route

NoTransaction == [in_multi |-> FALSE, watch_active |-> FALSE]

-----------------------------------------------------------------------------
(* C1 *)

-----------------------------------------------------------------------------
(* C2 *)

\* C2 (as stated): while in_multi or watch_active holds, nothing is written
\* to the replica, whatever the request (HELLO included).
C2_MasterOnlyInMultiOrWatch ==
    Served /\ (Before.state.in_multi \/ Before.state.watch_active)
        => Writes("replica") = {}

-----------------------------------------------------------------------------
(* C3 *)

\* C3: once the replica is absent it stays absent and is never written to
\* again; after a replica failure no later write of the same iteration goes
\* to the replica, and the session goes on (if it does) without a replica.
C3_ReplicaDisablePermanent ==
    /\ Served /\ ~IsSome(Before.replica) => ~IsSome(replica) /\ Writes("replica") = {}
    /\ \A i \in ReplicaFailures :
          /\ pc \notin {"closed", "blocked"} => ~IsSome(replica)
          /\ \A j \in Writes("replica") : j <= i

\* A replica-eligible read served after the replica was lost.
C3_Witness ==
    /\ Served /\ ~IsSome(Before.replica) /\ IsCommand /\ Request.name_upper = "GET"
    /\ Before.state = [in_multi |-> FALSE, watch_active |-> FALSE]
    /\ flow = "continue" /\ Writes("master") # {}

-----------------------------------------------------------------------------
(* C4 *)

\* C4 (as stated): authenticated only if ProxyAuth is disabled or the
\* session has processed an AUTH / HELLO AUTH whose credentials equal the
\* configured pair.
C4_AuthenticatedOnlyIfPresented ==
    authenticated => ~proxy_auth.enabled \/ presented

-----------------------------------------------------------------------------
(* C5 *)

\* C5: an AUTH command writes nothing to a backend, and what a HELLO writes
\* to a backend is HELLO, the version and at most SETNAME with the client's
\* name: the AUTH option and its two arguments are not in it.
C5_CredentialsStayLocal ==
    Served =>
        /\ IsCommand /\ Request.name_upper = "AUTH" => BackendWrites = {}
        /\ IsHello =>
              \A i \in BackendWrites :
                 LET items == ev[i].data.items
                 IN /\ ev[i].data.kind = "Array"
                    /\ Len(items) \in {2, 4}
                    /\ \A k \in DOMAIN items : items[k].t = "BulkString"
                    /\ items[1].v = b_HELLO
                    /\ items[2].v \in {<<"2">>, <<"3">>}
                    /\ Len(items) = 4 =>
                          /\ items[3].v = b_SETNAME
                          /\ IsSome(Request.setname)
                          /\ items[4].v = Unwrap(Request.setname)
                    /\ Len(items) = 2 => ~IsSome(Request.setname)

\* A HELLO carrying AUTH and SETNAME that reached both backends.
C5_Witness ==
    /\ Served /\ IsHello /\ IsSome(Request.auth) /\ IsSome(Request.setname)
    /\ Writes("master") # {} /\ Writes("replica") # {}

-----------------------------------------------------------------------------
(* C6 *)

\* C6: a request handled while the session is not authenticated writes
\* nothing to a backend unless it is the HELLO whose AUTH the proxy accepts;
\* any command but AUTH, HELLO, QUIT is answered -NOAUTH, and a HELLO
\* without accepted AUTH -NOAUTH or -WRONGPASS.
C6_NoBackendTrafficBeforeAuth ==
    Served /\ ~Before.authenticated =>
        LET accepted == /\ IsHello /\ IsSome(Request.auth)
                        /\ verify(proxy_auth, Unwrap(Request.auth)[1],
                                  Unwrap(Request.auth)[2])
        IN /\ ~accepted => BackendWrites = {} /\ Reads("master") = {} /\ Reads("replica") = {}
           /\ ~authenticated => BackendWrites = {}
           /\ IsCommand /\ Request.name_upper \notin {"AUTH", "HELLO", "QUIT"} =>
                 /\ Cardinality(Writes("client")) = 1
                 /\ \A i \in Writes("client") : ev[i].data = NoAuth
           /\ IsHello /\ ~accepted =>
                 /\ Cardinality(Writes("client")) = 1
                 /\ \A i \in Writes("client") : ev[i].data \in {NoAuth, WrongPass}

\* An unauthenticated whitelisted read, answered -NOAUTH.
C6_Witness ==
    /\ Served /\ ~Before.authenticated /\ IsCommand /\ Request.name_upper = "PING"
    /\ IsSome(Before.replica)
    /\ \E i \in Delivered : ev[i].data = NoAuth


-----------------------------------------------------------------------------
(* C7 *)

\* Whether the request is one the router treats as dual-forward.
IsDualForwardRequest ==
    \/ IsHello
    \/ IsCommand /\ is_dual_forward(Request.name_upper, first_arg_upper(Request))

\* C7 (as stated): with the replica enabled, a dual-forward command written
\* to master is written to the replica too.
C7_DualForwardReachesReplica ==
    Served /\ IsSome(Before.replica) /\ IsDualForwardRequest /\ Writes("master") # {}
        => Writes("replica") # {}

-----------------------------------------------------------------------------
(* C8 *)

\* C8: whatever was written to the replica belongs to a request that is on
\* the replica-read whitelist or dual-forward.
C8_ReplicaOnlyWhitelistedOrDual ==
    Served /\ Writes("replica") # {} =>
        \/ IsDualForwardRequest
        \/ IsCommand /\ is_replica_read_whitelisted(Request.name_upper)

\* A write and a non-dual CLIENT subcommand served with the replica present
\* and no transaction or watch open: master only.
C8_Witness ==
    /\ Served /\ IsCommand /\ IsSome(Before.replica)
    /\ Before.state = [in_multi |-> FALSE, watch_active |-> FALSE]
    /\ Request.name_upper = "CLIENT" /\ first_arg_upper(Request) = Some("LIST")
    /\ flow = "continue" /\ Writes("master") # {} /\ Writes("replica") = {}

-----------------------------------------------------------------------------
(* C9 *)

\* C9 (as stated): whatever is written to a backend is the raw bytes of the
\* client's request.
C9_BackendBytesAreRaw ==
    Served => \A i \in BackendWrites : ev[i].data = Unwrap(req)

\* The version a HELLO asks for: its leading "2" / "3", the version of the
\* dedicated frame, else the client's current version.
HelloTarget ==
    LET wire == Unwrap(req)
    IN IF wire.kind = "Hello" THEN wire.version
       ELSE IF Len(wire.items) >= 2 /\ wire.items[2].v = <<"2">> THEN "Resp2"
       ELSE IF Len(wire.items) >= 2 /\ wire.items[2].v = <<"3">> THEN "Resp3"
       ELSE Before.client.version

\* C9 (amended): for every forwarded request other than HELLO the bytes
\* written to each receiving backend are the raw bytes of the request; a
\* HELLO is written as the locally built HELLO <version> [SETNAME <name>];
\* each backend is written at most once per request, within the iteration
\* that read the request, so in the client's order.
C9_RawExceptHello ==
    Served =>
        /\ IsCommand => \A i \in BackendWrites : ev[i].data = Unwrap(req)
        /\ IsHello =>
              \A i \in BackendWrites :
                 ev[i].data = encode_command(
                     <<b_HELLO, IF HelloTarget = "Resp2" THEN <<"2">> ELSE <<"3">> >>
                     \o (IF IsSome(Request.setname)
                         THEN <<b_SETNAME, Unwrap(Request.setname)>> ELSE <<>>))
        /\ Request.tag = "Err" => BackendWrites = {}
        /\ Cardinality(Writes("master")) <= 1
        /\ Cardinality(Writes("replica")) <= 1

\* SELECT sent with an Integer argument, forwarded to both backends as read.
C9_Witness ==
    /\ Served /\ IsCommand /\ Request.name_upper = "SELECT"
    /\ \E k \in DOMAIN Unwrap(req).items : Unwrap(req).items[k].t = "Integer"
    /\ \E i \in Writes("master") : ev[i].ok /\ ev[i].data = Unwrap(req)
    /\ \E i \in Writes("replica") : ev[i].ok /\ ev[i].data = Unwrap(req)

-----------------------------------------------------------------------------
(* C10 *)

\* C10: after a HELLO that was forwarded and answered, the client stream,
\* the master stream and the replica stream, if still present, are all at
\* the version the HELLO asked for.
C10_VersionsAgreeAfterHello ==
    Served /\ IsHello /\ flow = "continue" /\ Writes("master") # {} =>
        /\ client.version = HelloTarget
        /\ Unwrap(master).version = HelloTarget
        /\ IsSome(replica) => Unwrap(replica).version = HelloTarget

\* HELLO 3 on a RESP2 session, answered, the replica still present.
C10_Witness ==
    /\ Served /\ IsHello /\ flow = "continue"
    /\ Before.client.version = "Resp2" /\ client.version = "Resp3"
    /\ IsSome(replica) /\ Unwrap(replica).version = "Resp3"
    /\ Unwrap(master).version = "Resp3"

-----------------------------------------------------------------------------
(* C11 *)

\* Whether the request was a command forwarded to a backend and answered.
Forwarded == Served /\ IsCommand /\ flow = "continue" /\ BackendWrites # {}

\* C11: after a forwarded MULTI in_multi is true; after a forwarded EXEC or
\* DISCARD in_multi and watch_active are both false; after WATCH
\* watch_active is true, after UNWATCH false (the other flag as it was).
\* While either flag is up a command is written to master only, and with
\* both down and the replica present a whitelisted read is written to the
\* replica first.
C11_StateOverlayFollowsCommand ==
    /\ Forwarded =>
          /\ Request.name_upper = "MULTI" =>
                state = [Before.state EXCEPT !.in_multi = TRUE]
          /\ Request.name_upper \in {"EXEC", "DISCARD"} => state = NoTransaction
          /\ Request.name_upper = "WATCH" =>
                state = [Before.state EXCEPT !.watch_active = TRUE]
          /\ Request.name_upper = "UNWATCH" =>
                state = [Before.state EXCEPT !.watch_active = FALSE]
    /\ Served /\ IsCommand /\ Before.state # NoTransaction => Writes("replica") = {}
    /\ Served /\ IsCommand /\ Before.authenticated /\ Before.state = NoTransaction
          /\ IsSome(Before.replica) /\ is_replica_read_whitelisted(Request.name_upper)
       => \E i \in Writes("replica") : \A j \in Writes("master") : i < j

\* EXEC forwarded inside a transaction with a watch held: both flags drop
\* and the replica is still there for the next read.
C11_Witness ==
    /\ Forwarded /\ Request.name_upper = "EXEC"
    /\ Before.state = [in_multi |-> TRUE, watch_active |-> TRUE]
    /\ state = NoTransaction /\ IsSome(replica)
    /\ Writes("master") # {} /\ Writes("replica") = {}

-----------------------------------------------------------------------------
(* C12 *)

\* C12 (as stated): on the Replica route a replica failure is followed by
\* the raw request written to master, master's reply written to the client,
\* the replica disabled and the session open.
C12_FallbackKeepsSessionOpen ==
    Served /\ RouteRecorded("Replica") /\ ReplicaFailures # {} =>
        /\ \E j \in Writes("master") : ev[j].data = Unwrap(req)
        /\ Cardinality(MasterReplies) = 1
        /\ ~IsSome(replica)
        /\ pc = "served"

\* C12 (amended): on the Replica route a replica failure is followed by the
\* raw request written to master.  If the iteration completes, master's
\* reply is the one reply the client got, the fallback is counted, the
\* replica is gone and the session is open; it fails to complete only when
\* a master or client call failed or never returned.  With the replica gone
\* a whitelisted read goes to master, as read.
C12_FallbackToMaster ==
    /\ Served /\ RouteRecorded("Replica") /\ ReplicaFailures # {} =>
          /\ \A i \in ReplicaFailures :
                \E j \in Writes("master") : j > i /\ ev[j].data = Unwrap(req)
          /\ flow = "continue" =>
                /\ pc = "served"
                /\ Cardinality(MasterReplies) = 1
                /\ ReplyFrames = MasterReplies
                /\ ~IsSome(replica)
                /\ \E i \in DOMAIN ev : ev[i].op = "record_replica_fallback"
          /\ flow # "continue" =>
                /\ ev[Len(ev)].who \in {"master", "client"}
                /\ Len(ev) \in MasterFailures \cup ClientFailures \cup Stalled
    /\ Served /\ IsCommand /\ Before.authenticated /\ ~IsSome(Before.replica)
          /\ is_replica_read_whitelisted(Request.name_upper) =>
          /\ Writes("replica") = {}
          /\ Cardinality(Writes("master")) = 1
          /\ \A j \in Writes("master") : ev[j].data = Unwrap(req)

\* A whitelisted read whose replica read timed out, answered by master.
C12_Witness ==
    /\ Served /\ RouteRecorded("Replica") /\ flow = "continue"
    /\ \E i \in Reads("replica") : ev[i].data.kind = "Timeout"
    /\ \E j \in Writes("master") : ev[j].ok /\ ev[j].data = Unwrap(req)
    /\ Cardinality(MasterReplies) = 1
    /\ IsSome(Before.replica) /\ ~IsSome(replica)

-----------------------------------------------------------------------------
(* C13 *)

\* C13: no replica failure ends a session.  An iteration returns an error
\* only on a request the parser rejects or on a failed master or client
\* call, which is then its last call; an iteration that saw a replica
\* failure and completed leaves the session open without a replica; a
\* start-up that fails failed in master's connector, and one whose replica
\* connector failed leaves the session connected to master alone.
C13_ReplicaFailureNotFatal ==
    /\ Served /\ flow = "return_err" /\ Request.tag # "Err" =>
          Len(ev) \in MasterFailures \cup ClientFailures
    /\ Served /\ ReplicaFailures # {} /\ flow = "continue" =>
          pc = "served" /\ ~IsSome(replica) /\ IsSome(master)
    /\ pc = "closed" /\ ~IsSome(pre) =>
          \A i \in DOMAIN ev : ev[i].who = "master"
    /\ pc = "connected" =>
          /\ IsSome(master)
          /\ (\E i \in DOMAIN ev : ev[i].who = "replica" /\ ~ev[i].ok) => ~IsSome(replica)

\* A dual-forward command whose replica write failed: answered by master,
\* the session open without the replica.
C13_Witness ==
    /\ Served /\ RouteRecorded("Both") /\ flow = "continue" /\ pc = "served"
    /\ \E i \in Writes("replica") : ~ev[i].ok
    /\ IsSome(Before.replica) /\ ~IsSome(replica)
    /\ Cardinality(MasterReplies) = 1

-----------------------------------------------------------------------------
(* C14 *)

\* C14: when a write to master fails, or a read from master returns EOF or
\* an error, that call is the iteration's last, the session is closed and
\* the client got no reply frame for the request; a failure in master's
\* connector closes the session before any request is read.
C14_MasterFailureTerminates ==
    /\ Served /\ MasterFailures # {} =>
          /\ MasterFailures = {Len(ev)}
          /\ pc = "closed" /\ flow = "return_err"
          /\ ReplyFrames = {}
    /\ ~IsSome(pre) /\ (\E i \in DOMAIN ev : ev[i].who = "master" /\ ~ev[i].ok) =>
          pc \in {"closed", "blocked"} /\ ~Served

\* Master closes while the proxy awaits its reply in the fallback that
\* follows a replica timeout.
C14_Witness ==
    /\ Served /\ RouteRecorded("Replica") /\ pc = "closed"
    /\ \E i \in Reads("replica") : ev[i].data.kind = "Timeout"
    /\ \E j \in Reads("master") : ev[j].data.kind = "Eof"
    /\ Writes("client") = {}

-----------------------------------------------------------------------------
(* C15 *)

\* Whether the first element of the request array is not a string frame.
NonStringName ==
    LET wire == Unwrap(req)
    IN /\ wire.kind = "Array" /\ wire.items # <<>>
       /\ wire.items[1].t \notin {"BulkString", "SimpleString"}

\* The iteration met a client protocol error: bytes the decoder rejected
\* (no frame was returned), or a frame the claim lists as malformed.
ClientProtocolError ==
    /\ IsSome(pre)
    /\ IF Served THEN Request.tag = "Err" \/ NonStringName
       ELSE flow = "return_err"

\* C15 (as stated): every client protocol error is answered with one
\* -ERR Protocol error reply, nothing is written to a backend, and the
\* session ends.
C15_ProtocolErrorReplied ==
    ClientProtocolError =>
        /\ Cardinality(Writes("client")) = 1
        /\ \A i \in Writes("client") :
              /\ ev[i].data.kind = "Error"
              /\ Served /\ Request.tag = "Err" => ev[i].data = ProtocolError(Request.err)
        /\ BackendWrites = {}
        /\ pc \in {"closed", "blocked"}

-----------------------------------------------------------------------------
(* C16 *)

\* The client received -NOAUTH, -WRONGPASS or the AUTH arity error.
AuthFailureReplied ==
    Served /\ \E i \in Delivered : ev[i].data \in {NoAuth, WrongPass, AuthArity}

\* C16: after a -NOAUTH, -WRONGPASS or AUTH arity reply the session is open
\* and authenticated, in_multi, watch_active, the replica and the three
\* versions are what they were; nothing was written to a backend.
C16_AuthFailureChangesNothing ==
    AuthFailureReplied =>
        /\ pc = "served" /\ flow = "continue"
        /\ Locals = Before
        /\ BackendWrites = {}

\* A wrong password sent by a session that had authenticated, inside a
\* transaction on a RESP3 session.
C16_Witness ==
    /\ AuthFailureReplied /\ proxy_auth.enabled
    /\ \E i \in Delivered : ev[i].data = WrongPass
    /\ Before.authenticated /\ authenticated
    /\ state.in_multi /\ client.version = "Resp3" /\ IsSome(replica)

-----------------------------------------------------------------------------
(* C17 *)

RECURSIVE PeakOutstanding(_, _, _)
\* The most replies `who` owed at any point of the I/O evs, owing n before.
PeakOutstanding(n, who, evs) ==
    IF evs = <<>> THEN n
    ELSE LET rest == PeakOutstanding(Outstanding(n, who, <<Head(evs)>>), who, Tail(evs))
         IN IF rest > n THEN rest ELSE n

\* C17 (as stated): an iteration serves the one request it read, and at no
\* point has a backend been written two requests whose replies the proxy
\* has not read.
C17_OneRequestOutstanding ==
    Served =>
        /\ PeakOutstanding(owed_pre.master, "master", ev) <= 1
        /\ PeakOutstanding(owed_pre.replica, "replica", ev) <= 1

-----------------------------------------------------------------------------
(* C18 *)

\* Reads of master that returned a push frame.
MasterPushReads ==
    { i \in Reads("master") : ev[i].data \in FramesFrom("master", {"Push"}) }

\* Writes to the client of a push frame of master.
MasterPushWrites ==
    { i \in Writes("client") : ev[i].data \in FramesFrom("master", {"Push"}) }

\* Writes to the client of a non-push frame of master.
MasterReplyWrites ==
    { i \in Writes("client") : ev[i].data \in FramesFrom("master", {"Reply", "Error"}) }

\* C18: each push frame read from master is at once written to the client
\* as read, so in master's order; the client is written no other push frame
\* of master; the frame written as the reply is the first frame of master
\* that is not a push frame and the last frame read from master, so every
\* push frame precedes it and none follows.
C18_PushForwardedBeforeReply ==
    Served =>
        /\ \A i \in MasterPushReads :
              i < Len(ev) /\ ev[i + 1] = Event("write", "client", ev[i].data, ev[i + 1].ok)
        /\ \A j \in MasterPushWrites : j > 1 /\ (j - 1) \in MasterPushReads
        /\ \A i, j \in MasterPushReads : i < j => ev[i].data.seq < ev[j].data.seq
        /\ \A j \in MasterReplyWrites :
              /\ \A i \in Reads("master") : i < j
              /\ \E i \in Reads("master") :
                    /\ ev[i].data = ev[j].data
                    /\ \A k \in Reads("master") : k # i => k \in MasterPushReads /\ k < i
              /\ \A k \in MasterPushWrites : k < j
        /\ Cardinality(MasterReplyWrites) <= 1

\* Two push frames relayed ahead of master's reply to a command.
C18_Witness ==
    /\ Served /\ IsCommand /\ flow = "continue"
    /\ Cardinality(MasterPushes) = 2
    /\ Cardinality(MasterReplies) = 1
    /\ \A i \in MasterPushes : \A j \in MasterReplies : i < j

-----------------------------------------------------------------------------
(* C19 *)

\* C19 (as stated): no call on the replica keeps an iteration from
\* completing: an iteration that never completes is stuck in a call on
\* master or on the client.  (A stuck iteration stays stuck: no step leaves
\* "blocked".)
C19_ReplicaNeverBlocks ==
    Served /\ pc = "blocked" => ev[Len(ev)].who \in {"master", "client"}

-----------------------------------------------------------------------------
(* C20 *)

\* C20 (as stated): a backend that never answers the handshake makes the
\* connector fail: session start-up is never stuck awaiting a handshake
\* reply.
C20_HandshakeReplyBounded ==
    ~IsSome(pre) /\ pc = "blocked" => ev[Len(ev)].op # "read"

-----------------------------------------------------------------------------
(* C21 *)

\* The calls of `who`'s connector that failed: the connect (refused or
\* timed out), a handshake write, a handshake read that returned EOF, an
\* undecodable frame or an error reply.
ConnectorFailures(who) ==
    { i \in DOMAIN ev \ Stalled :
         /\ ev[i].who = who
         /\ \/ ev[i].op \in {"connect", "write"} /\ ~ev[i].ok
            \/ ev[i].op = "read" /\ ev[i].data.kind \in {"Eof", "DecodeError", "Error"} }

\* C21: a failure in master's connector is its last call and ends the
\* session with no client frame read or written and the replica never
\* contacted; a failure in the replica's connector alone leaves the session
\* connected to master with the replica absent; and a request served with
\* the replica absent is written to master only and counted under Master.
C21_StartupOutcome ==
    /\ ~IsSome(pre) /\ ConnectorFailures("master") # {} =>
          /\ ConnectorFailures("master") = {Len(ev)}
          /\ pc = "closed" /\ ~Served /\ ~IsSome(master) /\ ~IsSome(replica)
          /\ \A i \in DOMAIN ev : ev[i].who = "master"
    /\ ~IsSome(pre) /\ ConnectorFailures("master") = {}
          /\ ConnectorFailures("replica") # {} =>
          /\ pc = "connected" /\ IsSome(master) /\ ~IsSome(replica)
          /\ \A i \in DOMAIN ev : ev[i].who \in {"master", "replica"}
    /\ Served /\ ~IsSome(Before.replica) =>
          /\ Writes("replica") = {} /\ Reads("replica") = {}
          /\ ~RouteRecorded("Replica") /\ ~RouteRecorded("Both")
          /\ BackendWrites # {} => RouteRecorded("Master")

\* Master authenticated and selected its db; the replica answered its AUTH
\* with an error reply: the session starts without the replica.
C21_Witness ==
    /\ pc = "connected" /\ ~IsSome(pre) /\ IsSome(master) /\ ~IsSome(replica)
    /\ \E i \in DOMAIN ev : ev[i].who = "master" /\ ev[i].op = "read" /\ ev[i].ok
    /\ \E i \in ConnectorFailures("replica") : ev[i].data.kind = "Error"

-----------------------------------------------------------------------------
(* C22 *)

\* The calls of Stats::record and Stats::record_replica_fallback.
Records == { i \in DOMAIN ev : ev[i].op = "record" }
Fallbacks == { i \in DOMAIN ev : ev[i].op = "record_replica_fallback" }

\* The name a request is counted under.
CounterName == IF IsHello THEN "HELLO" ELSE Request.name_upper

\* The backend the request was sent to first.
FirstSentTo(who) ==
    \E i \in Writes(who) : \A j \in BackendWrites : i <= j

\* C22: a request is counted at most once, and a request that a backend
\* took is counted exactly once, before it is sent, under its upper-cased
\* name and under Replica when it was sent to the replica first, Both when
\* it was sent to master and to the replica, Master when it was sent to
\* master alone.  A fallback is counted at most once, only after a replica
\* failure, on the Replica row of the same name, and after the total of
\* that row was incremented for the same request: the fallback count of a
\* row never exceeds its total.
C22_CounterAccounting ==
    Served =>
        /\ Cardinality(Records) <= 1
        /\ (\E w \in BackendWrites : ev[w].ok) =>
              /\ Cardinality(Records) = 1
              /\ \A i \in Records :
                    /\ \A w \in BackendWrites : i < w
                    /\ ev[i].data.cmd = CounterName
                    /\ ev[i].data.kind =
                          IF FirstSentTo("replica") THEN "Replica"
                          ELSE IF Writes("replica") # {} THEN "Both"
                          ELSE "Master"
        /\ Cardinality(Fallbacks) <= 1
        /\ \A j \in Fallbacks :
              /\ ev[j].data = [kind |-> "Replica", cmd |-> CounterName]
              /\ ReplicaFailures # {}
              /\ \E i \in Records : i < j /\ ev[i].data = ev[j].data

\* A whitelisted read counted under Replica whose replica closed: the
\* fallback is counted on the same row, after the total.
C22_Witness ==
    /\ Served /\ IsCommand /\ Request.name_upper = "GET" /\ flow = "continue"
    /\ \E i \in Records : ev[i].data = [kind |-> "Replica", cmd |-> "GET"]
    /\ \E j \in Fallbacks : ev[j].data = [kind |-> "Replica", cmd |-> "GET"]
    /\ \E i \in Reads("replica") : ev[i].data.kind = "Eof"
    /\ Cardinality(MasterReplies) = 1

-----------------------------------------------------------------------------
(* C23 *)

QuitServed == Served /\ IsCommand /\ Request.name_upper = "QUIT"

\* C23: a QUIT, whatever the session's state, touches no backend and no
\* counter: its first call writes +OK to the client and nothing else is
\* written to the client; the session is then over (no step reads another
\* request once pc is "closed" or "blocked"); when the client took the +OK
\* the loop was left by break and master, the replica if there is one, and
\* the client were shut down, in that order.
C23_QuitHandledLocally ==
    QuitServed =>
        /\ BackendWrites = {} /\ Reads("master") = {} /\ Reads("replica") = {}
        /\ Records = {}
        /\ Writes("client") = {1} /\ ev[1].data = SimpleOk
        /\ pc \in {"closed", "blocked"}
        /\ Locals = Before
        /\ Delivered # {} =>
              /\ pc = "closed" /\ flow = "break"
              /\ Tail(ev) = <<Event("shutdown", "master", [kind |-> "Shutdown"], TRUE)>>
                   \o (IF IsSome(Before.replica)
                       THEN <<Event("shutdown", "replica", [kind |-> "Shutdown"], TRUE)>>
                       ELSE <<>>)
                   \o <<Event("shutdown", "client", [kind |-> "Shutdown"], TRUE)>>

\* QUIT sent before authenticating, with the replica connected.
C23_Witness ==
    /\ QuitServed /\ proxy_auth.enabled /\ ~Before.authenticated
    /\ IsSome(Before.replica) /\ Delivered = {1} /\ Len(ev) = 4

-----------------------------------------------------------------------------
(* C24 *)

\* The frame is `who`'s reply to the request of this iteration: a reply
\* frame (not a push frame), read when `who` owed no earlier reply.
IsReplyOf(who, frame) ==
    frame \in FramesFrom(who, {"Reply", "Error"}) /\ owed_pre[who] = 0

\* C24 (as stated): the reply written to the client is master's reply on
\* the Master route, the Both route and the HELLO path, the replica's reply
\* on the Replica route unless the replica failed, and then master's; on
\* the Both route and the HELLO path the replica's reply is read after the
\* client's reply was written, and is not written to the client.
C24_ReplySelection ==
    Served /\ flow = "continue" /\ Records # {} =>
        /\ Cardinality(ReplyFrames) = 1
        /\ \A i \in ReplyFrames :
              IF RouteRecorded("Replica") /\ ReplicaFailures = {}
              THEN IsReplyOf("replica", ev[i].data)
              ELSE IsReplyOf("master", ev[i].data)
        /\ RouteRecorded("Both") =>
              \A r \in Reads("replica") :
                 /\ \A w \in Writes("client") : w < r /\ ev[w].data # ev[r].data
                 /\ r \notin ReplicaFailures => IsReplyOf("replica", ev[r].data)

-----------------------------------------------------------------------------
(* C25 *)

\* The calls of set_version on `who`'s stream.
SetVersions(who) == { i \in DOMAIN ev : ev[i].op = "set_version" /\ ev[i].who = who }

\* C25: while a HELLO is processed, a backend's version is set to the
\* target right after the HELLO was written to it in full, and only then;
\* every frame read from a backend is read after its version was set; the
\* client's version is set to the target right after master's reply was
\* read and right before that reply is written to the client, and only
\* then.
C25_VersionFlipBetweenRequestAndReply ==
    Served /\ IsHello =>
        /\ \A who \in {"master", "replica"} :
              /\ \A s \in SetVersions(who) :
                    /\ ev[s].data.kind = HelloTarget
                    /\ s > 1 /\ (s - 1) \in Writes(who) /\ ev[s - 1].ok
                    /\ ev[s - 1].data.items[1].v = b_HELLO
              /\ \A w \in Writes(who) : ev[w].ok => (w + 1) \in SetVersions(who)
              /\ \A r \in Reads(who) : \E s \in SetVersions(who) : s < r
              /\ Cardinality(SetVersions(who)) <= 1
        /\ \A s \in SetVersions("client") :
              /\ ev[s].data.kind = HelloTarget
              /\ s > 1 /\ s < Len(ev)
              /\ ev[s - 1].op = "read" /\ ev[s - 1].who = "master"
              /\ ev[s - 1].data \in FramesFrom("master", {"Reply", "Error"})
              /\ ev[s + 1].op = "write" /\ ev[s + 1].who = "client"
              /\ ev[s + 1].data = ev[s - 1].data
        /\ \A w \in MasterReplyWrites : (w - 1) \in SetVersions("client")
        /\ Cardinality(SetVersions("client")) <= 1

\* HELLO 3 on a RESP2 session with the replica connected: the three
\* versions are set and the replica's answer is drained.
C25_Witness ==
    /\ Served /\ IsHello /\ flow = "continue" /\ HelloTarget = "Resp3"
    /\ Before.client.version = "Resp2"
    /\ SetVersions("master") # {} /\ SetVersions("replica") # {}
    /\ SetVersions("client") # {}
    /\ \E r \in Reads("replica") : ev[r].data \in FramesFrom("replica", {"Reply"})

-----------------------------------------------------------------------------
(* C26 *)

\* The request is a command that reaches the router: it passed the auth
\* gate and is not answered locally.
Routed ==
    /\ Served /\ IsCommand /\ Before.authenticated
    /\ Request.name_upper \notin {"AUTH", "QUIT"}

\* The precedence list of the claim.
RouteRules(name, first, in_multi, watch_active, replica_available) ==
    << [when |-> in_multi \/ watch_active, route |-> "Master"],
       [when |-> is_always_master(name), route |-> "Master"],
       [when |-> is_dual_forward(name, first), route |-> "Both"],
       [when |-> replica_available /\ is_replica_read_whitelisted(name),
        route |-> "Replica"],
       [when |-> TRUE, route |-> "Master"] >>

\* First match wins.
FirstMatch(rules) ==
    LET k == CHOOSE i \in DOMAIN rules :
                 rules[i].when /\ \A j \in 1..(i - 1) : ~rules[j].when
    IN rules[k].route

\* The route the claim gives the request of this iteration.
ClaimedRoute ==
    LET cmd == Request
        rules == RouteRules(cmd.name_upper, first_arg_upper(cmd),
                            Before.state.in_multi, Before.state.watch_active,
                            IsSome(Before.replica))
    IN FirstMatch(rules)

-----------------------------------------------------------------------------
(* C27 *)

TransactionNames == {"MULTI", "EXEC", "DISCARD", "WATCH", "UNWATCH"}

\* The values of ConnState.
ConnStates == [in_multi : BOOLEAN, watch_active : BOOLEAN]

\* C27: the flags are both down when the loop starts; an iteration that
\* leaves them other than it found them served a MULTI, EXEC, DISCARD,
\* WATCH or UNWATCH that was forwarded and answered; and for a command of
\* any other name the transition maps every state to itself, applied once
\* or twice.
C27_FlagsChangeOnlyByTransactionCommands ==
    /\ pc = "connected" => state = NoTransaction
    /\ IsSome(pre) /\ state # Before.state =>
          /\ Forwarded /\ Request.name_upper \in TransactionNames
          /\ state = update_state(Before.state, Request)
    /\ Served /\ IsCommand /\ Request.name_upper \notin TransactionNames =>
          LET cmd == Request
          IN \A s \in ConnStates :
                /\ update_state(s, cmd) = s
                /\ update_state(update_state(s, cmd), cmd) = s

\* SELECT forwarded to master inside a transaction with a watch held: both
\* flags stay up.
C27_Witness ==
    /\ Forwarded /\ Request.name_upper = "SELECT"
    /\ Before.state = [in_multi |-> TRUE, watch_active |-> TRUE]
    /\ state = Before.state

-----------------------------------------------------------------------------
(* C28 *)

\* The versions of the three streams; a replica that is gone has none.
Versions(client_stream, master_stream, replica_stream) ==
    [client |-> client_stream.version, master |-> master_stream.version,
     replica |-> IF IsSome(replica_stream) THEN Unwrap(replica_stream).version
                 ELSE "None"]

\* C28: the three streams are RESP2 when the loop starts.  An iteration
\* that did not serve a HELLO, and one that answered a HELLO with -NOAUTH
\* or -WRONGPASS, calls set_version on no stream and leaves the version of
\* the client, of master and of the replica, if it is still there, as it
\* found it; set_version is called only after the HELLO was written to
\* master.
C28_VersionsChangeOnlyByHello ==
    /\ pc \in {"connect", "connected"} =>
          /\ client.version = "Resp2"
          /\ IsSome(master) => Unwrap(master).version = "Resp2"
          /\ IsSome(replica) => Unwrap(replica).version = "Resp2"
    /\ IsSome(pre) /\ (~Served \/ ~IsHello
                           \/ \E i \in Writes("client") : ev[i].data \in {NoAuth, WrongPass}) =>
          /\ \A who \in {"client", "master", "replica"} : SetVersions(who) = {}
          /\ client.version = Before.client.version
          /\ Unwrap(master).version = Before.master.version
          /\ IsSome(replica) => replica = Before.replica
    /\ Served /\ (\E who \in {"client", "master", "replica"} : SetVersions(who) # {}) =>
          /\ IsHello
          /\ \E w \in Writes("master") :
                ev[w].ok /\ \A who \in {"client", "master", "replica"} :
                              \A s \in SetVersions(who) : w < s

\* HELLO 3 with a wrong password on a RESP2 session: -WRONGPASS, and the
\* three streams stay RESP2.
C28_Witness ==
    /\ Served /\ IsHello /\ HelloTarget = "Resp3" /\ flow = "continue"
    /\ \E i \in Delivered : ev[i].data = WrongPass
    /\ Versions(client, Unwrap(master), replica)
          = [client |-> "Resp2", master |-> "Resp2", replica |-> "Resp2"]

-----------------------------------------------------------------------------
(* C29 *)

\* Frames read from the replica that the client received.
ReplicaFramesDelivered ==
    { i \in Delivered : ev[i].data \in FramesFrom("replica", {"Reply", "Error", "Push"}) }

\* C29 (as stated): a frame of the replica written to the client is
\* written for a Replica-route request and is the replica's reply to that
\* request: not a push frame, and not the reply to an earlier request that
\* the replica still owed when the request was read.
C29_ReplicaReplyAligned ==
    Served =>
        \A i \in ReplicaFramesDelivered :
           /\ RouteRecorded("Replica")
           /\ ev[i].data.kind # "Push"
           /\ owed_pre.replica = 0

-----------------------------------------------------------------------------
(* C30 *)

\* While the session is open, a transaction open on the master connection
\* implies in_multi and a watch held there implies watch_active.
MasterStateCovered ==
    pc \in {"connected", "loop", "served"} =>
        /\ master_tx.in_multi => state.in_multi
        /\ master_tx.watching => state.watch_active

\* A request read while the master connection has a transaction open or
\* holds a watch is not written to the replica.
NoReplicaWriteInMasterTransaction ==
    pc = "loop" /\ (master_tx.in_multi \/ master_tx.watching) =>
        \A i \in DOMAIN ev' : ~(ev'[i].op = "write" /\ ev'[i].who = "replica")

\* C30 (as stated): with the master connection entering a transaction on
\* MULTI, leaving it on EXEC / DISCARD and holding watches from WATCH to
\* UNWATCH / EXEC / DISCARD, the proxy's flags cover the master
\* connection's state in every state of an open session, and nothing is
\* written to the replica while master has a transaction open or a watch
\* held.
C30_TransactionOverApproximation ==
    []MasterStateCovered /\ [][NoReplicaWriteInMasterTransaction]_vars

-----------------------------------------------------------------------------
(* C31 *)

\* The versions the server behind `who` may speak after the last
\* iteration, when it spoke the version of the proxy's stream before it.
BackendSpeaks(who) ==
    backend_after(IF who = "master" THEN Before.master.version
                  ELSE Unwrap(Before.replica).version,
                  None, who, owed_pre[who], ev)

\* The master's answer to the forwarded HELLO of the last iteration.
HelloAnswers == { i \in MasterReplies : IsHello }

\* C31 (as stated): an iteration keeps the backend streams in agreement
\* with the backends: when each backend spoke the version of its stream
\* before the iteration, each still does after it, also when the iteration
\* forwarded a HELLO that the backend answered with an error reply; and
\* the iteration changes the client stream's version only when master
\* answered the forwarded HELLO with a reply that is not an error.
C31_BackendVersionAgreement ==
    Served /\ pc = "served" =>
        /\ BackendSpeaks("master") = {Unwrap(master).version}
        /\ IsSome(replica) => BackendSpeaks("replica") = {Unwrap(replica).version}
        /\ client.version # Before.client.version =>
              \E i \in HelloAnswers : ev[i].data.kind = "Reply"

====
